---- MODULE Spec2Model ----
(***************************************************************************)
(* diskover socket server (diskover_socket_server.py): the accept loop of  *)
(* start_socket_server, the pool of socket_thread_handler threads fed by a *)
(* bounded Queue, run_command and the socket_tasks registry.               *)
(*                                                                         *)
(* Exceptions follow Python 3: json.JSONDecodeError and UnicodeDecodeError *)
(* are ValueErrors, a missing dict key is a KeyError (a LookupError, not a *)
(* ValueError), indexing a non-dict with a string is a TypeError, and      *)
(* bytes + exception is a TypeError.  An exception no except clause of the *)
(* thread catches ends the thread.  subprocess.Popen is taken to succeed.  *)
(***************************************************************************)
EXTENDS Integers, Sequences, FiniteSets, TLC

\* Bounds of the model.  The source sets max_connections = 5 (line 111); the
\* model explores every pool/queue size 1..MaxThreads.
MaxThreads == 2
\* Number of client connections the environment makes.
MaxClients == 2

Conns == 1..MaxClients

(***************************************************************************)
(* Python values.  A JSON scalar is tagged with its Python type.           *)
(***************************************************************************)
PyS(x) == [t |-> "str", v |-> x]
PyB(x) == [t |-> "bool", v |-> x]

\* str(x) for the values the model uses (lines 175-189)
PyStr(x) ==
    IF x.t = "bool" THEN (IF x.v THEN "True" ELSE "False") ELSE x.v

\* x == 'literal' (lines 198-221)
PyEq(x, lit) == x.t = "str" /\ x.v = lit

\* diskover.config, read at lines 177, 194, 195
config ==
    [index |-> "diskover-index",
     python_path |-> "python",
     diskover_path |-> "./diskover.py"]

(***************************************************************************)
(* Requests.  The bytes a client sends are kept as the sequence of their   *)
(* '\r\n'-separated segments, so ''.split('\r\n') is <<"">> and a curl     *)
(* style request is <<request line, header, "", body>>.                    *)
(***************************************************************************)
EmptyData == <<"">>
PingData == <<"ping">>
BadUtf8Data == <<"\\xff\\xfe">>
BadJsonData == <<"{bad">>
ListData == <<"[]">>
CrawlData ==
    <<"POST / HTTP/1.1", "Content-Type: application/json", "",
      "{\"action\": \"crawl\", \"path\": \"/data\"}">>
CrawlNoPathData == <<"{\"action\": \"crawl\"}">>
FindDupesData ==
    <<"{\"action\": \"finddupes\", \"index\": \"idx2\", \"batchsize\": \"10\"}">>
ReindexData ==
    <<"{\"action\": \"reindex\", \"path\": \"/data\", \"recursive\": \"true\", \"adaptivebatch\": \"true\"}">>
ReindexNoPathData == <<"{\"action\": \"reindex\", \"recursive\": \"true\"}">>
KillData == <<"{\"action\": \"kill\", \"taskid\": \"1\"}">>
KillNoTaskidData == <<"{\"action\": \"kill\"}">>
UnknownData == <<"{\"action\": \"foo\"}">>
NoActionData == <<"{\"path\": \"/data\"}">>

\* what the clients of the model send on a connection: one request for each
\* path through socket_thread_handler and run_command; finddupes and reindex
\* take the path of crawl, and reindex without path and kill without taskid
\* the path of crawl without path
Requests ==
    {EmptyData, PingData, BadUtf8Data, BadJsonData, ListData, CrawlData,
     CrawlNoPathData, KillData, UnknownData, NoActionData}

\* byte strings that are not valid UTF-8
InvalidUtf8 == {"\\xff\\xfe"}

\* data.decode('utf-8') (line 46): TRUE when it raises UnicodeDecodeError
DecodeRaises(data) == \E i \in 1..Len(data) : data[i] \in InvalidUtf8

\* data.split('\r\n')[-1] (line 66)
StripHeaders(data) == data[Len(data)]

\* the JSON texts the model's clients send, with what json.loads returns
JsonTable ==
    [text \in {CrawlData[4], CrawlNoPathData[1], FindDupesData[1], ReindexData[1],
               ReindexNoPathData[1], KillData[1], KillNoTaskidData[1],
               UnknownData[1], NoActionData[1], ListData[1]} |->
       CASE text = CrawlData[4] ->
              [type |-> "dict", items |-> [action |-> PyS("crawl"), path |-> PyS("/data")]]
         [] text = CrawlNoPathData[1] ->
              [type |-> "dict", items |-> [action |-> PyS("crawl")]]
         [] text = FindDupesData[1] ->
              [type |-> "dict",
               items |-> [action |-> PyS("finddupes"), index |-> PyS("idx2"),
                          batchsize |-> PyS("10")]]
         [] text = ReindexData[1] ->
              [type |-> "dict",
               items |-> [action |-> PyS("reindex"), path |-> PyS("/data"),
                          recursive |-> PyS("true"), adaptivebatch |-> PyS("true")]]
         [] text = ReindexNoPathData[1] ->
              [type |-> "dict",
               items |-> [action |-> PyS("reindex"), recursive |-> PyS("true")]]
         [] text = KillData[1] ->
              [type |-> "dict", items |-> [action |-> PyS("kill"), taskid |-> PyS("1")]]
         [] text = KillNoTaskidData[1] ->
              [type |-> "dict", items |-> [action |-> PyS("kill")]]
         [] text = UnknownData[1] ->
              [type |-> "dict", items |-> [action |-> PyS("foo")]]
         [] text = NoActionData[1] ->
              [type |-> "dict", items |-> [path |-> PyS("/data")]]
         [] text = ListData[1] ->
              [type |-> "list", items |-> <<>>]]

\* json.loads(data) (line 70): the decoded value, or ValueError
json_loads(text) ==
    IF text \in DOMAIN JsonTable
    THEN [exc |-> "None", value |-> JsonTable[text]]
    ELSE [exc |-> "ValueError", value |-> [type |-> "none", items |-> <<>>]]

\* obj[key] with a string key: TypeError on a non-dict, KeyError on a missing key
GetItem(obj, key) ==
    IF obj.type # "dict" THEN [exc |-> "TypeError", v |-> PyS("")]
    ELSE IF key \notin DOMAIN obj.items THEN [exc |-> "KeyError", v |-> PyS("")]
    ELSE [exc |-> "None", v |-> obj.items[key]]

\* try: x = str(command_dict[key]) except KeyError: x = str(default)
\* (lines 174-190); a TypeError is not caught
Resolve(command_dict, key, default) ==
    LET r == GetItem(command_dict, key) IN
    IF r.exc = "KeyError" THEN [exc |-> "None", v |-> PyStr(default)]
    ELSE IF r.exc = "None" THEN [exc |-> "None", v |-> PyStr(r.v)]
    ELSE [exc |-> r.exc, v |-> ""]

(***************************************************************************)
(* run_command up to the point where it acts: the argument vector it       *)
(* builds, or the exception it raises.                                     *)
(***************************************************************************)
Raise(e) == [exc |-> e, branch |-> "none", cmd |-> <<>>]

\* if adaptivebatch == "True" or adaptivebatch == "true": cmd.append('-a')
\* (lines 236-238)
AddAdaptive(cmd, adaptivebatch) ==
    IF adaptivebatch = "True" \/ adaptivebatch = "true" THEN Append(cmd, "-a") ELSE cmd

\* if recursive: '-R' else '-r'
RecursiveFlagTruthy(recursive) ==
    IF recursive.t = "bool"
    THEN (IF recursive.v THEN "-R" ELSE "-r")
    ELSE (IF recursive.v = "" THEN "-r" ELSE "-R")

\* if recursive == 'true': ... '-R' ... else: ... '-r' ... (lines 214-219)
RecursiveFlag(recursive) == IF PyEq(recursive, "true") THEN "-R" ELSE "-r"

\* lines 173-238 of run_command
Dispatch(command_dict, args) ==
    LET index == Resolve(command_dict, "index", PyS(config.index))
        batchsize == Resolve(command_dict, "batchsize", args.batchsize)
        adaptivebatch == Resolve(command_dict, "adaptivebatch", args.adaptivebatch)
        action == GetItem(command_dict, "action")
        path == GetItem(command_dict, "path")
        taskid == GetItem(command_dict, "taskid")
        recursive == LET r == GetItem(command_dict, "recursive")
                     IN  IF r.exc = "KeyError" THEN PyS("false") ELSE r.v
        base == <<config.python_path, "-u", config.diskover_path,
                  "-b", batchsize.v, "-i", index.v>>
        Spawn(cmd) == [exc |-> "None", branch |-> "spawn",
                       cmd |-> AddAdaptive(cmd, adaptivebatch.v)]
    IN  IF index.exc # "None" THEN Raise(index.exc)
        ELSE IF action.exc # "None" THEN Raise(action.exc)
        ELSE IF PyEq(action.v, "crawl") THEN
            IF path.exc # "None" THEN Raise(path.exc)
            ELSE Spawn(base \o <<"-d", path.v.v, "-q">>)
        ELSE IF PyEq(action.v, "finddupes") THEN
            Spawn(base \o <<"--finddupes", "-q">>)
        ELSE IF PyEq(action.v, "reindex") THEN
            IF path.exc # "None" THEN Raise(path.exc)
            ELSE Spawn(base \o <<"-d", path.v.v, RecursiveFlag(recursive), "-q">>)
        ELSE IF PyEq(action.v, "kill") THEN
            IF taskid.exc # "None" THEN Raise(taskid.exc)
            ELSE [exc |-> "None", branch |-> "kill", cmd |-> <<>>]
        ELSE [exc |-> "None", branch |-> "unknown", cmd |-> <<>>]

\* cliargs, the listener's own defaults (lines 183, 189)
cliargs == [batchsize |-> PyS("50"), adaptivebatch |-> PyB(FALSE)]

\* str(uuid.uuid4()) (line 242), given the identifiers drawn so far: a fresh one
uuid4(drawn) == Len(drawn) + 1

(***************************************************************************)
(* Reply frames                                                            *)
(***************************************************************************)
\* b'pong\n'
PongLine == [raw |-> "pong\\n"]

\* message = b'pong' (line 61)
Pong == [raw |-> "pong"]
TaskStart(id) == [msg |-> "taskstart", taskid |-> id]

\* the format arguments of line 269 swapped
TaskFinishSwapped(id, code) == [msg |-> "taskfinish", taskid |-> code, exitcode |-> id]

\* lines 268-269 (elapsedtime left out)
TaskFinish(id, code) == [msg |-> "taskfinish", taskid |-> id, exitcode |-> code]

\* a reply that the task is not known
TaskUnknown == [error |-> "unknown task"]

\* message = b'{"msg": "taskkilled"}\n' (line 226)
TaskKilled == [msg |-> "taskkilled"]
UnknownAction == [error |-> "unknown action"]
ValueErrorReply == [error |-> "value error"]

\* what process.communicate() may return: the exit code and the output
ProcessResults ==
    {[returncode |-> 0, output |-> "done"],
     [returncode |-> 1, output |-> "\\xff\\xfe"]}

VARIABLES
    max_connections,  \* pool size and queue capacity (line 111)
    mainpc,           \* where start_socket_server is
    client,           \* the connection accept() returned, 0 when none
    serversock,       \* "listening" or "closed"
    exitstatus,       \* <<>> while the process runs, <<n>> after sys.exit(n)
    clientlist,       \* connections accepted so far (line 149)
    q,                \* Queue.Queue(maxsize=max_connections): queued connections
    unfinished_tasks, \* the queue's count of items put and not yet task_done
    pc,               \* where each socket_thread_handler thread is
    clientsock,       \* the connection each thread holds, 0 when none
    data,             \* the handler's data: what recv returned, <<>> when none
    called,           \* the handler has called run_command for its connection
    taskid,           \* run_command's taskid, 0 when none
    process,          \* run_command's process, 0 when none
    socket_tasks,     \* taskid -> process
    procs,            \* the processes spawned, in spawn order
    uuids,            \* the identifiers uuid4 has returned, in order
    sent,             \* per connection: the frames sent, in order
    closes,           \* per connection: number of close() calls
    dones,            \* per connection: number of task_done() calls for it
    call              \* one call of run_command taken alone: its command_dict
                      \* and cliargs, and what lines 173-238 make of them

vars ==
    <<max_connections, mainpc, client, serversock, exitstatus, clientlist,
      q, unfinished_tasks, pc, clientsock, data, called, taskid, process,
      socket_tasks, procs, uuids, sent, closes, dones, call>>

mainvars == <<mainpc, client, serversock, exitstatus, clientlist>>
queuevars == <<q, unfinished_tasks>>
handlervars == <<clientsock, data, called>>
taskvars == <<taskid, process, socket_tasks, procs, uuids>>
connvars == <<sent, closes, dones>>
confvars == <<max_connections, call>>

\* range(max_connections + 1)
PoolOffByOne(n) == 0..n

\* for i in range(max_connections): one thread each (lines 132-137)
Pool(n) == 0..(n - 1)

Threads == DOMAIN pc

\* the process has not exited: its threads run
Alive == exitstatus = <<>>

\* json.loads of the stripped data of thread w (lines 66-70)
CommandOf(w) == json_loads(StripHeaders(data[w]))

\* no call of run_command is looked at alone
NoCall ==
    [command_dict |-> [type |-> "none", items |-> <<>>], cliargs |-> cliargs,
     returned |-> FALSE, out |-> Raise("None")]

Init ==
    /\ call = NoCall
    /\ max_connections \in 1..MaxThreads
    /\ mainpc = "accept"
    /\ client = 0
    /\ serversock = "listening"
    /\ exitstatus = <<>>
    /\ clientlist = <<>>
    /\ q = <<>>
    /\ unfinished_tasks = 0
    /\ pc = [i \in Pool(max_connections) |-> "get"]
    /\ clientsock = [i \in Pool(max_connections) |-> 0]
    /\ data = [i \in Pool(max_connections) |-> <<>>]
    /\ called = [i \in Pool(max_connections) |-> FALSE]
    /\ taskid = [i \in Pool(max_connections) |-> 0]
    /\ process = [i \in Pool(max_connections) |-> 0]
    /\ socket_tasks = [t \in {} |-> 0]
    /\ procs = <<>>
    /\ uuids = <<>>
    /\ sent = [c \in Conns |-> <<>>]
    /\ closes = [c \in Conns |-> 0]
    /\ dones = [c \in Conns |-> 0]

(***************************************************************************)
(* start_socket_server                                                     *)
(***************************************************************************)
\* clientsock, addr = serversock.accept(); clientlist.append(client)
\* (lines 143-149)
Accept ==
    /\ Alive /\ mainpc = "accept"
    /\ Len(clientlist) < MaxClients
    /\ client' = Len(clientlist) + 1
    /\ clientlist' = Append(clientlist, Len(clientlist) + 1)
    /\ mainpc' = "put"
    /\ UNCHANGED <<serversock, exitstatus, queuevars, pc, handlervars, taskvars,
                   connvars, confvars>>

\* a queue without maxsize
QueueUnbounded == TRUE

\* Queue.put(item) blocks while the queue holds maxsize items (lines 114, 151)
QueueHasRoom == Len(q) < max_connections

\* q.put(client) (line 151)
Put ==
    /\ Alive /\ mainpc = "put"
    /\ QueueHasRoom
    /\ q' = Append(q, client)
    /\ unfinished_tasks' = unfinished_tasks + 1
    /\ client' = 0
    /\ mainpc' = "accept"
    /\ UNCHANGED <<serversock, exitstatus, clientlist, pc, handlervars, taskvars,
                   connvars, confvars>>

\* except socket.error: serversock.close(); sys.exit(1) (lines 153-156)
AcceptError ==
    /\ Alive /\ mainpc = "accept"
    /\ serversock' = "closed"
    /\ exitstatus' = <<1>>
    /\ mainpc' = "exit"
    /\ UNCHANGED <<client, clientlist, queuevars, pc, handlervars, taskvars,
                   connvars, confvars>>

\* except KeyboardInterrupt (lines 158-159), raised in accept() or q.put()
KeyboardInterrupt ==
    /\ Alive /\ mainpc \in {"accept", "put"}
    /\ mainpc' = "join"
    /\ UNCHANGED <<client, serversock, exitstatus, clientlist, queuevars, pc,
                   handlervars, taskvars, connvars, confvars>>

\* no q.join()
JoinSkipped == TRUE

\* Queue.join() returns once unfinished_tasks is 0 (line 160)
JoinReturns == unfinished_tasks = 0

\* q.join(); serversock.close(); sys.exit(0) (lines 160-162)
Join ==
    /\ Alive /\ mainpc = "join"
    /\ JoinReturns
    /\ serversock' = "closed"
    /\ exitstatus' = <<0>>
    /\ mainpc' = "exit"
    /\ UNCHANGED <<client, clientlist, queuevars, pc, handlervars, taskvars,
                   connvars, confvars>>

(***************************************************************************)
(* socket_thread_handler, thread w                                         *)
(***************************************************************************)
Goto(w, label) == pc' = [pc EXCEPT ![w] = label]

\* the message is sent twice
SendTwice(w, message, ok) ==
    sent' = IF ok THEN [sent EXCEPT ![clientsock[w]] = Append(Append(@, message), message)]
            ELSE sent

\* clientsock.send(message): the frame reaches the client, or socket.error
Send(w, message, ok) ==
    sent' = IF ok THEN [sent EXCEPT ![clientsock[w]] = Append(@, message)] ELSE sent

\* run_command returns: its locals are gone
Return(w) ==
    /\ taskid' = [taskid EXCEPT ![w] = 0]
    /\ process' = [process EXCEPT ![w] = 0]

\* c = q.get() (lines 41-42): blocks while the queue is empty.  The threads
\* blocked in q.get() are in the same state and run the same code, so which of
\* them the queue wakes makes no difference: it is the lowest-numbered one.
Get(w) ==
    /\ Alive /\ pc[w] = "get"
    /\ q # <<>>
    /\ \A v \in Threads : pc[v] = "get" => w <= v
    /\ clientsock' = [clientsock EXCEPT ![w] = Head(q)]
    /\ q' = Tail(q)
    /\ Goto(w, "recv")
    /\ UNCHANGED <<mainvars, unfinished_tasks, data, called, taskvars, connvars,
                   confvars>>

\* where the handler goes with the data recv returned (lines 46-70)
Classify(d) ==
    IF DecodeRaises(d) THEN "except"
    ELSE IF d = EmptyData THEN "close"
    ELSE IF d = PingData THEN "ping"
    ELSE IF json_loads(StripHeaders(d)).exc # "None" THEN "except"
    ELSE "run"

\* data = clientsock.recv(BUFF) and the classification of data (lines 45-70);
\* recv may raise socket.error (lines 94-95)
Recv(w) ==
    /\ Alive /\ pc[w] = "recv"
    /\ \/ \E d \in Requests :
            /\ data' = [data EXCEPT ![w] = d]
            /\ Goto(w, Classify(d))
       \/ /\ data' = data
          /\ Goto(w, "close")
    /\ UNCHANGED <<mainvars, queuevars, clientsock, called, taskvars, connvars,
                   confvars>>

\* clientsock.send(b'pong') (lines 57-63)
SendPong(w) ==
    /\ Alive /\ pc[w] = "ping"
    /\ \E ok \in BOOLEAN : Send(w, Pong, ok)
    /\ Goto(w, "close")
    /\ UNCHANGED <<mainvars, queuevars, handlervars, taskvars, closes, dones,
                   confvars>>

\* except (ValueError, TypeError) as e (lines 81-84): building the message,
\* bytes + e, raises TypeError inside the except clause, so lines 85-91 never
\* run and the thread ends holding the connection
ExceptValueError(w) ==
    /\ Alive /\ pc[w] = "except"
    /\ Goto(w, "dead")
    /\ UNCHANGED <<mainvars, queuevars, handlervars, taskvars, connvars, confvars>>

\* clientsock.close() (lines 51, 76, 97)
Close(w) ==
    /\ Alive /\ pc[w] = "close"
    /\ closes' = [closes EXCEPT ![clientsock[w]] = @ + 1]
    /\ Goto(w, "task_done")
    /\ UNCHANGED <<mainvars, queuevars, handlervars, taskvars, sent, dones, confvars>>

\* q.task_done() (lines 54, 79, 100) and back to the top of the loop, where
\* the handler's locals are overwritten
TaskDone(w) ==
    /\ Alive /\ pc[w] = "task_done"
    /\ unfinished_tasks' = unfinished_tasks - 1
    /\ dones' = [dones EXCEPT ![clientsock[w]] = @ + 1]
    /\ clientsock' = [clientsock EXCEPT ![w] = 0]
    /\ data' = [data EXCEPT ![w] = <<>>]
    /\ called' = [called EXCEPT ![w] = FALSE]
    /\ Goto(w, "get")
    /\ UNCHANGED <<mainvars, q, taskvars, sent, closes, confvars>>

(***************************************************************************)
(* run_command, called by thread w                                         *)
(***************************************************************************)
\* subprocess.Popen(cmd, ...) (line 245): a new running process; client is
\* the connection it was started for; returncode is None, <<>>, until
\* process.communicate() sets it.  The k-th process is started right after
\* the k-th identifier is drawn, so uuids[k] is the taskid of procs[k].
Popen(cmd, c) ==
    Append(procs, [cmd |-> cmd, client |-> c, exited |-> FALSE, returncode |-> <<>>])

\* lines 173-245: resolve the fields, choose the branch, and for crawl,
\* finddupes and reindex draw the taskid and start the process.  A TypeError
\* goes to the handler's except clause; a KeyError is caught nowhere.
RunCommand(w) ==
    /\ Alive /\ pc[w] = "run"
    /\ called' = [called EXCEPT ![w] = TRUE]
    /\ LET d == Dispatch(CommandOf(w).value, cliargs) IN
       IF d.exc = "None" /\ d.branch = "spawn"
       THEN /\ uuids' = Append(uuids, uuid4(uuids))
            /\ taskid' = [taskid EXCEPT ![w] = uuid4(uuids)]
            /\ procs' = Popen(d.cmd, clientsock[w])
            /\ process' = [process EXCEPT ![w] = Len(procs) + 1]
            /\ Goto(w, "register")
       ELSE /\ UNCHANGED <<uuids, taskid, procs, process>>
            /\ Goto(w, IF d.exc = "TypeError" THEN "except"
                       ELSE IF d.exc = "KeyError" THEN "dead"
                       ELSE d.branch)
    /\ UNCHANGED <<mainvars, queuevars, clientsock, data, socket_tasks, connvars,
                   confvars>>

\* socket_tasks = {taskid: process}
StoreAlone(tasks, id, p) == [t \in {id} |-> p]

\* tasks[id] = p on a dict
Store(tasks, id, p) ==
    [t \in DOMAIN tasks \cup {id} |-> IF t = id THEN p ELSE tasks[t]]

\* socket_tasks[taskid] = process (line 248)
Register(w) ==
    /\ Alive /\ pc[w] = "register"
    /\ socket_tasks' = Store(socket_tasks, taskid[w], process[w])
    /\ Goto(w, "taskstart")
    /\ UNCHANGED <<mainvars, queuevars, handlervars, taskid, process, procs, uuids,
                   connvars, confvars>>

\* send of the taskstart frame (lines 250-251); on socket.error run_command's
\* except clause (lines 278-280) returns without process.communicate()
SendTaskStart(w) ==
    /\ Alive /\ pc[w] = "taskstart"
    /\ \E ok \in BOOLEAN :
          /\ Send(w, TaskStart(taskid[w]), ok)
          /\ IF ok
             THEN Goto(w, "communicate") /\ UNCHANGED <<taskid, process>>
             ELSE Goto(w, "close") /\ Return(w)
    /\ UNCHANGED <<mainvars, queuevars, handlervars, socket_tasks, procs, uuids,
                   closes, dones, confvars>>

\* process.poll(): returns at once
Polled(p) == TRUE

\* process.communicate() returns when the process has ended
Waited(p) == procs[p].exited

\* output, error = process.communicate() (line 257) blocks until the process
\* has ended and sets the returncode; output.decode('utf-8') (lines 262, 264)
\* raises ValueError on bad bytes
Communicate(w) ==
    /\ Alive /\ pc[w] = "communicate"
    /\ Waited(process[w])
    /\ \E r \in ProcessResults :
          /\ procs' = [procs EXCEPT ![process[w]] =
                          [@ EXCEPT !.returncode = <<r.returncode>>]]
          /\ Goto(w, IF r.output \in InvalidUtf8 THEN "valueerror" ELSE "taskfinish")
    /\ UNCHANGED <<mainvars, queuevars, handlervars, taskid, process, socket_tasks,
                   uuids, connvars, confvars>>

\* send of the taskfinish frame (lines 268-270)
SendTaskFinish(w) ==
    /\ Alive /\ pc[w] = "taskfinish"
    /\ \E ok \in BOOLEAN :
          Send(w, TaskFinish(taskid[w], procs[process[w]].returncode[1]), ok)
    /\ Goto(w, "close") /\ Return(w)
    /\ UNCHANGED <<mainvars, queuevars, handlervars, socket_tasks, procs, uuids,
                   closes, dones, confvars>>

\* except ValueError: send {"error": "value error"} (lines 272-276)
SendValueError(w) ==
    /\ Alive /\ pc[w] = "valueerror"
    /\ \E ok \in BOOLEAN : Send(w, ValueErrorReply, ok)
    /\ Goto(w, "close") /\ Return(w)
    /\ UNCHANGED <<mainvars, queuevars, handlervars, socket_tasks, procs, uuids,
                   closes, dones, confvars>>

\* action 'kill': send {"msg": "taskkilled"} and return (lines 221-228)
SendTaskKilled(w) ==
    /\ Alive /\ pc[w] = "kill"
    /\ \E ok \in BOOLEAN : Send(w, TaskKilled, ok)
    /\ Goto(w, "close")
    /\ UNCHANGED <<mainvars, queuevars, handlervars, taskvars, closes, dones,
                   confvars>>

\* any other action: send {"error": "unknown action"} and return (lines 230-234)
SendUnknownAction(w) ==
    /\ Alive /\ pc[w] = "unknown"
    /\ \E ok \in BOOLEAN : Send(w, UnknownAction, ok)
    /\ Goto(w, "close")
    /\ UNCHANGED <<mainvars, queuevars, handlervars, taskvars, closes, dones,
                   confvars>>

\* a spawned process ends, whenever it does: right after Popen, while the
\* thread waits in communicate(), or after run_command has left it behind
ProcessExit(p) ==
    /\ Alive /\ ~procs[p].exited
    /\ procs' = [procs EXCEPT ![p] = [@ EXCEPT !.exited = TRUE]]
    /\ UNCHANGED <<mainvars, queuevars, pc, handlervars, taskid, process,
                   socket_tasks, uuids, connvars, confvars>>

Next ==
    \/ Accept
    \/ Put
    \/ AcceptError
    \/ KeyboardInterrupt
    \/ Join
    \/ \E w \in Threads : Get(w)
    \/ \E w \in Threads : Recv(w)
    \/ \E w \in Threads : SendPong(w)
    \/ \E w \in Threads : ExceptValueError(w)
    \/ \E w \in Threads : RunCommand(w)
    \/ \E w \in Threads : Register(w)
    \/ \E w \in Threads : SendTaskStart(w)
    \/ \E w \in Threads : Communicate(w)
    \/ \E w \in Threads : SendTaskFinish(w)
    \/ \E w \in Threads : SendValueError(w)
    \/ \E w \in Threads : SendTaskKilled(w)
    \/ \E w \in Threads : SendUnknownAction(w)
    \/ \E w \in Threads : Close(w)
    \/ \E w \in Threads : TaskDone(w)
    \/ \E p \in 1..Len(procs) : ProcessExit(p)

Spec == Init /\ [][Next]_vars

\* the steps of thread w
Worker(w) ==
    \/ Get(w) \/ Recv(w) \/ SendPong(w) \/ ExceptValueError(w) \/ RunCommand(w)
    \/ Register(w) \/ SendTaskStart(w) \/ Communicate(w) \/ SendTaskFinish(w)
    \/ SendValueError(w) \/ SendTaskKilled(w) \/ SendUnknownAction(w)
    \/ Close(w) \/ TaskDone(w)

\* Scheduling: every thread that can take a step eventually takes one (recv
\* returns because the client sends or closes), the main thread leaves
\* q.put() and q.join() once they can return, and every spawned process
\* ends.  Nothing makes a client connect or the operator interrupt.
Fairness ==
    /\ \A w \in Pool(MaxThreads) : WF_vars(w \in Threads /\ Worker(w))
    /\ WF_vars(Put)
    /\ WF_vars(Join)
    /\ \A p \in 1..MaxClients : WF_vars(p <= Len(procs) /\ ProcessExit(p))

FairSpec == Spec /\ Fairness

(***************************************************************************)
(* run_command's lines 173-238 taken alone, over the command_dicts and the *)
(* cliargs a caller may pass                                               *)
(***************************************************************************)
\* a field is absent, <<>>, or has a value, <<v>>
ActionValues ==
    {<<>>, <<PyS("crawl")>>, <<PyS("finddupes")>>, <<PyS("reindex")>>,
     <<PyS("kill")>>, <<PyS("foo")>>}
PathValues == {<<>>, <<PyS("/data")>>}
TaskidValues == {<<>>, <<PyS("1")>>}
RecursiveValues ==
    {<<>>, <<PyS("true")>>, <<PyS("True")>>, <<PyS("false")>>, <<PyS("yes")>>,
     <<PyB(TRUE)>>}
AdaptiveValues ==
    {<<>>, <<PyS("true")>>, <<PyS("True")>>, <<PyS("TRUE")>>, <<PyS("tRuE")>>,
     <<PyS("false")>>, <<PyS("yes")>>, <<PyB(TRUE)>>}
\* cliargs['adaptivebatch'], the listener's own flag
AdaptiveDefaults == {PyB(FALSE), PyB(TRUE)}

\* the dict with the fields that have a value
MakeDict(fields) ==
    [type |-> "dict",
     items |-> [k \in {f \in DOMAIN fields : fields[f] # <<>>} |-> fields[k][1]]]

CommandDicts ==
    {MakeDict([action |-> a, path |-> p, taskid |-> t, recursive |-> r,
               adaptivebatch |-> ab]) :
        a \in ActionValues, p \in PathValues, t \in TaskidValues,
        r \in RecursiveValues, ab \in AdaptiveValues}

DispatchInit ==
    /\ call \in [command_dict : CommandDicts,
                  cliargs : [batchsize : {PyS("50")}, adaptivebatch : AdaptiveDefaults],
                  returned : {FALSE}, out : {Raise("None")}]
    /\ max_connections = 1
    /\ mainpc = "accept"
    /\ client = 0
    /\ serversock = "listening"
    /\ exitstatus = <<>>
    /\ clientlist = <<>>
    /\ q = <<>>
    /\ unfinished_tasks = 0
    /\ pc = [i \in Pool(max_connections) |-> "get"]
    /\ clientsock = [i \in Pool(max_connections) |-> 0]
    /\ data = [i \in Pool(max_connections) |-> <<>>]
    /\ called = [i \in Pool(max_connections) |-> FALSE]
    /\ taskid = [i \in Pool(max_connections) |-> 0]
    /\ process = [i \in Pool(max_connections) |-> 0]
    /\ socket_tasks = [t \in {} |-> 0]
    /\ procs = <<>>
    /\ uuids = <<>>
    /\ sent = [c \in Conns |-> <<>>]
    /\ closes = [c \in Conns |-> 0]
    /\ dones = [c \in Conns |-> 0]

\* lines 173-238 run on the call's command_dict and cliargs
DispatchCall ==
    /\ ~call.returned
    /\ call' = [call EXCEPT !.returned = TRUE,
                            !.out = Dispatch(call.command_dict, call.cliargs)]
    /\ UNCHANGED <<max_connections, mainvars, queuevars, pc, handlervars, taskvars,
                   connvars>>

DispatchSpec == DispatchInit /\ [][DispatchCall]_vars

(***************************************************************************)
(* Vocabulary of the properties                                            *)
(***************************************************************************)
Queued(c) == \E i \in 1..Len(q) : q[i] = c

\* c was put on the queue (line 151)
WasPut(c) == c \in 1..Len(clientlist) /\ c # client

\* a thread took c from the queue
Dequeued(c) == WasPut(c) /\ ~Queued(c)

\* a running thread is handling c
Handling(c) == \E w \in Threads : clientsock[w] = c /\ pc[w] # "dead"

\* the thread that took c has left the handler for c, or has ended
HandlerLeft(c) == Dequeued(c) /\ ~Handling(c)

\* thread w has closed its connection, or has ended: it sends nothing more
Past(w) == pc[w] \in {"task_done", "dead"}

\* the frames sent on c
Frames(c) == {sent[c][i] : i \in 1..Len(sent[c])}

\* the processes started for connection c
ProcsOf(c) == {p \in 1..Len(procs) : procs[p].client = c}

\* the request thread w read reached json.loads and json.loads raised
NotJson(w) ==
    /\ data[w] # <<>>
    /\ ~DecodeRaises(data[w])
    /\ data[w] \notin {EmptyData, PingData}
    /\ CommandOf(w).exc = "ValueError"

\* the request thread w read decoded to a dict
IsCommand(w) ==
    /\ data[w] # <<>>
    /\ Classify(data[w]) = "run"
    /\ CommandOf(w).value.type = "dict"

Fields(w) == DOMAIN CommandOf(w).value.items
Field(w, key) == CommandOf(w).value.items[key]

ActionIs(w, name) == "action" \in Fields(w) /\ PyEq(Field(w, "action"), name)

\* C1: every connection a thread dequeued is closed exactly once on every exit
\* path: close is never called twice, and once the thread has left the handler
\* for the connection, or has stopped, the connection has been closed.
C1_ClosedExactlyOnce ==
    Alive =>
        \A c \in Conns :
            /\ closes[c] <= 1
            /\ HandlerLeft(c) => closes[c] = 1

\* a frame {"msg": "error", "error": ...} (line 84)
IsDecodeError(f) == "msg" \in DOMAIN f /\ f.msg = "error"

\* C2: a request whose body is not valid JSON gets a decode-error frame and a
\* closed connection, run_command is not called, no process is spawned and
\* socket_tasks gets no entry: when the thread is past the connection, the
\* decode-error frame is the one frame sent and the connection is closed.
C2_DecodeErrorReply ==
    Alive =>
        \A w \in Threads :
            NotJson(w) =>
                /\ ~called[w]
                /\ ProcsOf(clientsock[w]) = {}
                /\ taskid[w] = 0
                /\ Past(w) =>
                      /\ Len(sent[clientsock[w]]) = 1
                      /\ IsDecodeError(sent[clientsock[w]][1])
                      /\ closes[clientsock[w]] = 1

\* the command thread w read has no action, or one that is none of the four
UnknownOrAbsent(w) ==
    /\ IsCommand(w)
    /\ ~ActionIs(w, "crawl") /\ ~ActionIs(w, "finddupes")
    /\ ~ActionIs(w, "reindex") /\ ~ActionIs(w, "kill")

\* C3: a decoded command whose action is absent or is none of crawl,
\* finddupes, reindex, kill is answered by run_command with
\* {"error": "unknown action"}: once run_command is called the thread is at
\* that send or past it, nothing else is sent, no process is spawned and
\* socket_tasks is as before.
C3_UnknownActionReply ==
    \A w \in Threads :
        UnknownOrAbsent(w) /\ called[w] =>
            /\ pc[w] \in {"unknown", "close", "task_done"}
            /\ Frames(clientsock[w]) \subseteq {UnknownAction}
            /\ ProcsOf(clientsock[w]) = {}

\* the command thread w read has a recognized action and lacks its required
\* field
MissingField(w) ==
    /\ IsCommand(w)
    /\ \/ (ActionIs(w, "crawl") \/ ActionIs(w, "reindex")) /\ "path" \notin Fields(w)
       \/ ActionIs(w, "kill") /\ "taskid" \notin Fields(w)

\* C4: a recognized action without its required field (crawl or reindex
\* without path, kill without taskid) is answered by run_command with
\* {"error": "value error"}: once run_command is called the thread is at that
\* send or past it, nothing else is sent, no process is spawned and no task
\* is registered.
C4_ValueErrorReply ==
    \A w \in Threads :
        MissingField(w) /\ called[w] =>
            /\ pc[w] \in {"valueerror", "close", "task_done"}
            /\ Frames(clientsock[w]) \subseteq {ValueErrorReply}
            /\ ProcsOf(clientsock[w]) = {}

\* C5: no thread ends because of a handled error (transport error, JSON decode
\* error, missing field, unknown action): all max_connections threads stay
\* alive while the server runs.
C5_WorkersStayAlive ==
    Alive => Cardinality({w \in Threads : pc[w] # "dead"}) = max_connections

IsTaskStart(f) == "msg" \in DOMAIN f /\ f.msg = "taskstart"
IsTaskFinish(f) == "msg" \in DOMAIN f /\ f.msg = "taskfinish"
HasTaskStart(c) == \E f \in Frames(c) : IsTaskStart(f)
HasTaskFinish(c) == \E f \in Frames(c) : IsTaskFinish(f)

CrawlWithPath(w) == IsCommand(w) /\ ActionIs(w, "crawl") /\ "path" \in Fields(w)

\* cmd holds '-d', path
HasPathArg(cmd, path) ==
    \E i \in 1..(Len(cmd) - 1) : cmd[i] = "-d" /\ cmd[i + 1] = path

\* C6: for a crawl command with a path, once run_command is called exactly
\* one process has been started for it, with the path in its argument vector,
\* and one identifier was drawn for it (as many identifiers as processes);
\* the first frame on the connection is the taskstart with that identifier
\* and the frame after it is the taskfinish with the same identifier and the
\* exit code of the process (or the value error of lines 272-276 when the
\* process output does not decode).
C6_CrawlOneProcessOneTask ==
    /\ Len(uuids) = Len(procs)
    /\ \A w \in Threads :
          CrawlWithPath(w) =>
              LET c == clientsock[w] IN
              /\ Cardinality(ProcsOf(c)) <= 1
              /\ ~called[w] => ProcsOf(c) = {} /\ sent[c] = <<>>
              /\ called[w] =>
                    /\ Cardinality(ProcsOf(c)) = 1
                    /\ \A p \in ProcsOf(c) :
                          /\ HasPathArg(procs[p].cmd, Field(w, "path").v)
                          /\ Len(sent[c]) <= 2
                          /\ Len(sent[c]) >= 1 =>
                                /\ IsTaskStart(sent[c][1])
                                /\ sent[c][1].taskid = uuids[p]
                          /\ Len(sent[c]) = 2 =>
                                \/ /\ IsTaskFinish(sent[c][2])
                                   /\ sent[c][2].taskid = uuids[p]
                                   /\ <<sent[c][2].exitcode>> = procs[p].returncode
                                \/ sent[c][2] = ValueErrorReply

C6_Witness ==
    \E w \in Threads :
        /\ CrawlWithPath(w)
        /\ pc[w] = "task_done"
        /\ Len(sent[clientsock[w]]) = 2
        /\ IsTaskStart(sent[clientsock[w]][1])
        /\ IsTaskFinish(sent[clientsock[w]][2])
        /\ sent[clientsock[w]][2].taskid = sent[clientsock[w]][1].taskid
        /\ sent[clientsock[w]][2].exitcode = 0

\* a process was started for c: its command is a long-running one
Started(c) == ProcsOf(c) # {}

\* c is completely handled: closed, task_done called, held by no thread, so
\* nothing more is sent on it
Finished(c) ==
    /\ dones[c] = 1 /\ closes[c] = 1
    /\ \A w \in Threads : clientsock[w] # c

\* C7: with one worker (max_connections = 1) long-running commands are
\* served one after the other: of two connections for which a process was
\* started, one is completely handled, so the second gets its taskstart only
\* after the first got its taskfinish and was closed.
C7_OneWorkerSequential ==
    max_connections = 1 =>
        \A c1 \in Conns, c2 \in Conns :
            (c1 # c2 /\ Started(c1) /\ Started(c2)) =>
                Finished(c1) \/ Finished(c2)

C7_Witness ==
    /\ max_connections = 1
    /\ \E c1 \in Conns, c2 \in Conns :
          /\ c1 # c2 /\ Started(c1) /\ Started(c2)
          /\ HasTaskStart(c1) /\ HasTaskFinish(c1) /\ Finished(c1)
          /\ HasTaskStart(c2) /\ ~HasTaskFinish(c2) /\ ~Finished(c2)

\* connections taken from the queue and not yet finished (task_done)
InFlight == {c \in Conns : Dequeued(c) /\ dones[c] = 0}

\* C8: the queue holds at most max_connections connections, at most
\* max_connections connections are in flight, there are max_connections
\* threads, every connection in flight is held by exactly one thread and no
\* thread holds a queued or finished connection.
C8_QueueAndPoolBounded ==
    /\ Len(q) <= max_connections
    /\ Cardinality(InFlight) <= max_connections
    /\ Cardinality(Threads) = max_connections
    /\ \A c \in InFlight : Cardinality({w \in Threads : clientsock[w] = c}) = 1
    /\ \A w \in Threads : clientsock[w] # 0 => clientsock[w] \in InFlight

C8_Witness ==
    /\ mainpc = "put"
    /\ Len(q) = max_connections
    /\ client # 0

\* the insertion for process p is done
Registered(p) == ~\E w \in Threads : process[w] = p /\ pc[w] = "register"

\* the identifiers drawn are pairwise distinct; every process whose insertion
\* is done has exactly one entry in socket_tasks, under its own identifier;
\* every entry is for a spawned process
RegistryState ==
    /\ \A i \in 1..Len(uuids), j \in 1..Len(uuids) : i # j => uuids[i] # uuids[j]
    /\ \A t \in DOMAIN socket_tasks : socket_tasks[t] \in 1..Len(procs)
    /\ \A p \in 1..Len(procs) :
          Registered(p) =>
              /\ uuids[p] \in DOMAIN socket_tasks
              /\ {t \in DOMAIN socket_tasks : socket_tasks[t] = p} = {uuids[p]}

\* C9: under any interleaving of the threads the identifiers drawn are
\* pairwise distinct, socket_tasks holds exactly one entry for every process
\* whose insertion is done and none for anything else, and no step removes
\* or replaces an entry.
C9_RegistryIntact ==
    /\ []RegistryState
    /\ [][\A t \in DOMAIN socket_tasks :
              t \in DOMAIN socket_tasks' /\ socket_tasks'[t] = socket_tasks[t]]_vars

C9_Witness ==
    /\ Cardinality(DOMAIN socket_tasks) = 2
    /\ \E w1 \in Threads, w2 \in Threads :
          w1 # w2 /\ pc[w1] = "taskstart" /\ pc[w2] = "taskstart"

\* KeyboardInterrupt was caught (line 158)
Interrupted == mainpc = "join" \/ exitstatus = <<0>>

\* at exit with status 0 the listening socket is closed, the queue is empty
\* and every connection that was put on it is closed, finished and held by
\* no thread
Drained ==
    exitstatus = <<0>> =>
        /\ serversock = "closed"
        /\ q = <<>>
        /\ \A c \in Conns :
              WasPut(c) =>
                  /\ closes[c] = 1 /\ dones[c] = 1
                  /\ \A w \in Threads : clientsock[w] # c

\* C10: once KeyboardInterrupt is caught no connection is accepted or queued
\* any more; the listening socket stays open while q.join() waits; and when
\* the server has exited with status 0 the listening socket is closed, the
\* queue is empty and every connection that was put on the queue has been
\* closed and finished and is held by no thread.
C10_ShutdownDrains ==
    /\ []Drained
    /\ [](mainpc = "join" => serversock = "listening")
    /\ [][Interrupted => clientlist' = clientlist /\ Len(q') <= Len(q)]_vars

C10_Witness ==
    /\ exitstatus = <<0>>
    /\ Len(clientlist) = MaxClients
    /\ \A c \in Conns : dones[c] = 1
    /\ \E c \in Conns : HasTaskFinish(c)

\* C11: after the operator's interrupt the server eventually exits with
\* status 0, whatever requests were handled before it.
C11_ShutdownExits == (mainpc = "join") ~> (exitstatus = <<0>>)

\* c was returned by accept() (lines 143-149)
Accepted(c) == c \in 1..Len(clientlist)

\* C12: every accepted connection is eventually closed by a thread (or the
\* server has exited), whatever requests came before it.
C12_EveryConnectionServed ==
    \A c \in Conns : Accepted(c) ~> (closes[c] = 1 \/ ~Alive)

\* thread w read, or reads in this step, the bytes 'ping'
IsPing(w) == data[w] = PingData

\* the bytes of the frame are exactly 'pong'
IsPong(f) == "raw" \in DOMAIN f /\ f.raw = "pong"

\* C13: for a request whose bytes are exactly 'ping' the only frame sent is
\* exactly 'pong', run_command is not called, no process is spawned for it,
\* no step of its thread changes socket_tasks or the processes, and the
\* connection is closed afterwards.
C13_PingPong ==
    /\ [](\A w \in Threads :
             IsPing(w) =>
                 /\ pc[w] \in {"ping", "close", "task_done"}
                 /\ ~called[w] /\ taskid[w] = 0
                 /\ ProcsOf(clientsock[w]) = {}
                 /\ Len(sent[clientsock[w]]) <= 1
                 /\ \A f \in Frames(clientsock[w]) : IsPong(f)
                 /\ pc[w] = "ping" => sent[clientsock[w]] = <<>>
                 /\ closes[clientsock[w]] = IF pc[w] = "task_done" THEN 1 ELSE 0)
    /\ [][\A w \in Threads :
             (IsPing(w) \/ data'[w] = PingData) /\ pc'[w] # pc[w] =>
                 socket_tasks' = socket_tasks /\ procs' = procs]_vars

C13_Witness ==
    \E w \in Threads :
        /\ IsPing(w) /\ pc[w] = "task_done"
        /\ Len(sent[clientsock[w]]) = 1
        /\ IsPong(sent[clientsock[w]][1])
        /\ Cardinality(DOMAIN socket_tasks) = 1

\* the original C14: at most one reply frame on every connection
C14_AtMostOneFrame == \A c \in Conns : Len(sent[c]) <= 1

\* C14: on every connection the server sends at most one reply frame, except
\* for a command that starts a process: that one gets the taskstart frame
\* and then at most one more frame, the taskfinish or the value error.
\* Nothing is sent on a connection once it is closed.
C14_FramesPerRequest ==
    /\ [](\A c \in Conns :
             /\ Len(sent[c]) <= 2
             /\ Len(sent[c]) = 2 =>
                   /\ Started(c)
                   /\ IsTaskStart(sent[c][1])
                   /\ IsTaskFinish(sent[c][2]) \/ sent[c][2] = ValueErrorReply
             /\ ~Started(c) => Len(sent[c]) <= 1)
    /\ [][\A c \in Conns : closes[c] >= 1 => sent'[c] = sent[c]]_vars

C14_Witness ==
    \E c \in Conns :
        /\ Len(sent[c]) = 2 /\ closes[c] = 1
        /\ \E d \in Conns : d # c /\ Len(sent[d]) = 1 /\ ~Started(d) /\ closes[d] = 1

\* the command thread w read is a kill with a taskid
IsKill(w) == IsCommand(w) /\ ActionIs(w, "kill") /\ "taskid" \in Fields(w)

\* the identifier a kill names: the text "1" names the first identifier drawn
KillTarget(w) == IF Field(w, "taskid").v = "1" THEN 1 ELSE 0

IsTaskKilled(f) == "msg" \in DOMAIN f /\ f.msg = "taskkilled"

\* C15: a kill command is a pure acknowledgement: once run_command is called
\* the only frame sent is {"msg": "taskkilled"}, no process is started for it
\* and no step of its thread changes socket_tasks or any process, whether or
\* not the taskid is registered.
C15_KillAcknowledges ==
    /\ [](\A w \in Threads :
             IsKill(w) /\ called[w] =>
                 /\ pc[w] \in {"kill", "close", "task_done"}
                 /\ taskid[w] = 0 /\ process[w] = 0
                 /\ ProcsOf(clientsock[w]) = {}
                 /\ Len(sent[clientsock[w]]) <= 1
                 /\ \A f \in Frames(clientsock[w]) : IsTaskKilled(f)
                 /\ pc[w] = "kill" => sent[clientsock[w]] = <<>>)
    /\ [][\A w \in Threads :
             IsKill(w) /\ pc'[w] # pc[w] =>
                 socket_tasks' = socket_tasks /\ procs' = procs]_vars

C15_Witness ==
    \E w \in Threads :
        /\ IsKill(w) /\ pc[w] = "task_done"
        /\ Len(sent[clientsock[w]]) = 1
        /\ IsTaskKilled(sent[clientsock[w]][1])
        /\ KillTarget(w) \in DOMAIN socket_tasks
        /\ ~procs[socket_tasks[KillTarget(w)]].exited

\* the call has run and built an argument vector
CallSpawns == call.returned /\ call.out.exc = "None" /\ call.out.branch = "spawn"

CallFields == DOMAIN call.command_dict.items
CallField(key) == call.command_dict.items[key]

\* the resolved adaptivebatch of the call: the field if present, else the
\* caller default, as a string
ResolvedAdaptive ==
    IF "adaptivebatch" \in CallFields
    THEN PyStr(CallField("adaptivebatch"))
    ELSE PyStr(call.cliargs.adaptivebatch)

\* x.lower(), for the strings of the model
Lower(x) ==
    CASE x \in {"true", "True", "TRUE", "tRuE"} -> "true"
      [] x = "False" -> "false"
      [] OTHER -> x

HasFlag(cmd, flag) == \E i \in 1..Len(cmd) : cmd[i] = flag

\* C16: the argument vector holds '-a' exactly when the resolved
\* adaptivebatch equals "true" under case-insensitive comparison.
C16_AdaptiveFlag ==
    CallSpawns => (HasFlag(call.out.cmd, "-a") <=> Lower(ResolvedAdaptive) = "true")

\* the call is a reindex with a path
CallReindex ==
    /\ call.returned
    /\ "action" \in CallFields /\ PyEq(CallField("action"), "reindex")
    /\ "path" \in CallFields

\* C17: a reindex with a path builds an argument vector; it holds '-R' and
\* no '-r' when recursive is the string "true", and '-r' and no '-R' when
\* recursive is absent or has any other value.
C17_ReindexRecursive ==
    CallReindex =>
        /\ CallSpawns
        /\ IF "recursive" \in CallFields /\ CallField("recursive") = PyS("true")
           THEN HasFlag(call.out.cmd, "-R") /\ ~HasFlag(call.out.cmd, "-r")
           ELSE HasFlag(call.out.cmd, "-r") /\ ~HasFlag(call.out.cmd, "-R")

C17_Witness ==
    /\ CallReindex
    /\ "recursive" \in CallFields /\ CallField("recursive") = PyS("true")
    /\ HasFlag(call.out.cmd, "-R")
    /\ HasFlag(call.out.cmd, "/data")

\* the spawned processes that have not ended
Running == {p \in 1..Len(procs) : ~procs[p].exited}

\* C18: at most max_connections spawned processes are running, and every
\* running process is still held by the thread that spawned it, which is
\* inside run_command.
C18_RunningWithinPool ==
    /\ Cardinality(Running) <= max_connections
    /\ \A p \in Running : \E w \in Threads : process[w] = p

\* the original C19, its order of events: the process ends only after the
\* taskstart was sent
C19_ExitAfterTaskStart ==
    \A w \in Threads :
        process[w] # 0 /\ pc[w] \in {"register", "taskstart"} =>
            ~procs[process[w]].exited

\* C19: per task the order is: process spawned, entry written to
\* socket_tasks, taskstart sent, taskfinish sent; the process ends at any
\* time after it was spawned, and before the taskfinish.  So every entry of
\* socket_tasks is for a spawned process under its own identifier, a
\* taskstart is only sent for a registered identifier of a process spawned
\* for that connection, and a taskfinish only follows the taskstart with the
\* same identifier, when the process has ended and its returncode is set.
C19_TaskOrder ==
    /\ \A t \in DOMAIN socket_tasks :
          socket_tasks[t] \in 1..Len(procs) /\ uuids[socket_tasks[t]] = t
    /\ \A c \in Conns : \A i \in 1..Len(sent[c]) :
          /\ IsTaskStart(sent[c][i]) =>
                /\ sent[c][i].taskid \in DOMAIN socket_tasks
                /\ procs[socket_tasks[sent[c][i].taskid]].client = c
          /\ IsTaskFinish(sent[c][i]) =>
                /\ i > 1 /\ IsTaskStart(sent[c][i - 1])
                /\ sent[c][i - 1].taskid = sent[c][i].taskid
                /\ procs[socket_tasks[sent[c][i].taskid]].exited
                /\ procs[socket_tasks[sent[c][i].taskid]].returncode # <<>>

C19_Witness ==
    /\ \E c \in Conns : HasTaskStart(c) /\ HasTaskFinish(c)
    /\ \E w \in Threads :
          /\ pc[w] = "taskstart"
          /\ taskid[w] \in DOMAIN socket_tasks
          /\ procs[process[w]].exited

\* C20: q.task_done() is called exactly once for every connection a thread
\* took from the queue, so the queue's count of unfinished items is the
\* number of queued connections plus the number of connections held by a
\* running thread.
C20_TaskDoneBalanced ==
    Alive =>
        /\ \A c \in Conns :
              /\ dones[c] <= 1
              /\ HandlerLeft(c) => dones[c] = 1
        /\ unfinished_tasks =
              Len(q) + Cardinality({w \in Threads : clientsock[w] # 0 /\ pc[w] # "dead"})

====
